---- MODULE Spec2Model ----
(***************************************************************************)
(* A model of the Promotions REST service (service/routes.py and           *)
(* service/models.py).                                                     *)
(*                                                                         *)
(* Text is a sequence of one-character strings, so that trimming,          *)
(* lower-casing and integer parsing are computed and not assumed.          *)
(* A calendar date is the day number within one modelled month; its ISO    *)
(* text "YYYY-MM-DD" is represented by the two day characters "DD" (the    *)
(* "YYYY-MM-" prefix is the same for every date of the model).             *)
(* The result of a multi-row query is modelled as the set of its rows:     *)
(* the order of rows of a query without ORDER BY is left to the database.  *)
(***************************************************************************)
EXTENDS Integers, Sequences, FiniteSets, TLC

VARIABLES
    rows,         \* the promotion table: a set of rows
    nextId,       \* the next value of the serial primary key
    today,        \* date.today()
    req,          \* the last request: its handler, path id and query; the
                  \* argument of a direct call of deserialize
    resp,         \* the response to it
    deactivated,  \* history, kept under SpecHistory only: per id, the
                  \* successful deactivations since the promotion was created
                  \* or last updated (not program state)
    inflight      \* the requests that are being handled at the same time under
                  \* SpecConcurrent: per worker, its position in the handler
                  \* and the object its session holds

vars == <<rows, nextId, today, req, resp, deactivated, inflight>>

----------------------------------------------------------------------------
(* Bounds of the model *)

\* ids the serial primary key hands out in one run: 1..MaxId
MaxId == 2
\* the day the run starts on, and the midnights that pass during it
FirstToday == 2
MaxTicks == 1

MaxToday == FirstToday + MaxTicks

----------------------------------------------------------------------------
(* Text *)

Upper == <<"A","B","C","D","E","F","G","H","I","J","K","L","M",
           "N","O","P","Q","R","S","T","U","V","W","X","Y","Z">>
Lowers == <<"a","b","c","d","e","f","g","h","i","j","k","l","m",
            "n","o","p","q","r","s","t","u","v","w","x","y","z">>
DigitChars == <<"0","1","2","3","4","5","6","7","8","9">>

IsSpace(c) == c \in {" ", "\t", "\n", "\r"}

IsDigit(c) == \E i \in 1..Len(DigitChars) : DigitChars[i] = c

DigitVal(c) == (CHOOSE i \in 1..Len(DigitChars) : DigitChars[i] = c) - 1

\* str.lower() on one character
LowerChar(c) ==
    IF \E i \in 1..Len(Upper) : Upper[i] = c
    THEN Lowers[CHOOSE i \in 1..Len(Upper) : Upper[i] = c]
    ELSE c

\* str.lower()
Lower(s) == [i \in 1..Len(s) |-> LowerChar(s[i])]

\* str.strip(): drops the leading and the trailing white space
Strip(s) ==
    LET keep == {i \in 1..Len(s) : ~IsSpace(s[i])}
    IN  IF keep = {} THEN <<>>
        ELSE LET lo == CHOOSE i \in keep : \A j \in keep : i <= j
                 hi == CHOOSE i \in keep : \A j \in keep : j <= i
             IN  SubSeq(s, lo, hi)

RECURSIVE DigitsValue(_)
\* the value of a non-empty run of decimal digits
DigitsValue(s) ==
    IF Len(s) = 0 THEN 0
    ELSE 10 * DigitsValue(SubSeq(s, 1, Len(s) - 1)) + DigitVal(s[Len(s)])

\* int(text): white space around the number and one sign are accepted;
\* anything else raises ValueError (ok = FALSE)
ParseInt(s) ==
    LET t    == Strip(s)
        sgn  == Len(t) > 0 /\ t[1] \in {"+", "-"}
        body == IF sgn THEN SubSeq(t, 2, Len(t)) ELSE t
    IN  IF Len(body) > 0 /\ \A i \in 1..Len(body) : IsDigit(body[i])
        THEN [ok |-> TRUE,
              n  |-> IF sgn /\ t[1] = "-" THEN 0 - DigitsValue(body)
                     ELSE DigitsValue(body)]
        ELSE [ok |-> FALSE, n |-> 0]

RECURSIVE Decimal(_)
\* str(n) of an integer n >= 0
Decimal(n) ==
    IF n < 10 THEN <<DigitChars[n + 1]>>
    ELSE Decimal(n \div 10) \o <<DigitChars[(n % 10) + 1]>>

----------------------------------------------------------------------------
(* Dates *)

\* date.isoformat(): the day as two digits
IsoFormat(d) == <<DigitChars[(d \div 10) + 1], DigitChars[(d % 10) + 1]>>

\* mutant of FromIsoFormat: any run of digits is taken for a day
FromIsoFormat_AnyDigits(s) ==
    IF Len(s) > 0 /\ \A i \in 1..Len(s) : IsDigit(s[i])
    THEN [ok |-> TRUE, d |-> DigitsValue(s)]
    ELSE [ok |-> FALSE, d |-> 0]

\* date.fromisoformat(text): exactly two digits naming a day of the month
FromIsoFormat(s) ==
    IF Len(s) = 2 /\ IsDigit(s[1]) /\ IsDigit(s[2])
       /\ DigitsValue(s) >= 1 /\ DigitsValue(s) <= 31
    THEN [ok |-> TRUE, d |-> DigitsValue(s)]
    ELSE [ok |-> FALSE, d |-> 0]

----------------------------------------------------------------------------
(* JSON values *)

JAbsent   == [t |-> "absent", s |-> <<>>, n |-> 0]
JNull     == [t |-> "null",   s |-> <<>>, n |-> 0]
JStr(s)   == [t |-> "str",    s |-> s,    n |-> 0]
JInt(n)   == [t |-> "int",    s |-> <<>>, n |-> n]
JBool(b)  == [t |-> "bool",   s |-> <<>>, n |-> IF b THEN 1 ELSE 0]
JFloat(n) == [t |-> "float",  s |-> <<>>, n |-> n]

Keys == {"id", "name", "promotion_type", "value", "product_id",
         "start_date", "end_date"}

\* a JSON object: every key of Keys either carries a value or is absent
NoFields == [k \in Keys |-> JAbsent]
JDict(m)  == [kind |-> "dict", m |-> m]
\* request bodies that are not objects
JText     == [kind |-> "str",  m |-> NoFields]
JNone     == [kind |-> "null", m |-> NoFields]
JList     == [kind |-> "list", m |-> NoFields]
JNumber   == [kind |-> "int",  m |-> NoFields]

\* isinstance(v, int): bool is a subclass of int
IsInstanceInt(v) == v.t \in {"int", "bool"}

JDate(d)  == [t |-> "date",   s |-> <<>>, n |-> d]

----------------------------------------------------------------------------
(* The Promotion object and its row *)

\* Promotion(): a new object, every attribute None
NewPromotion ==
    [id |-> JNull, name |-> JNull, promotion_type |-> JNull, value |-> JNull,
     product_id |-> JNull, start_date |-> JNull, end_date |-> JNull]

\* the object the session loads from a row of the table
Loaded(r) ==
    [id |-> JInt(r.id), name |-> JStr(r.name),
     promotion_type |-> JStr(r.promotion_type), value |-> JInt(r.value),
     product_id |-> JInt(r.product_id), start_date |-> JDate(r.start_date),
     end_date |-> JDate(r.end_date)]

\* The columns of the table. A text column takes a string, an integer column
\* an integer, a date column a date; every column is NOT NULL.
Storable(o) ==
    /\ o.name.t = "str" /\ o.promotion_type.t = "str"
    /\ o.value.t = "int" /\ o.product_id.t = "int"
    /\ o.start_date.t = "date" /\ o.end_date.t = "date"

\* mutant of RowOf: value and product_id change places
RowOf_SwapsInts(o, pid) ==
    [id |-> pid, name |-> o.name.s, promotion_type |-> o.promotion_type.s,
     value |-> o.product_id.n, product_id |-> o.value.n,
     start_date |-> o.start_date.n, end_date |-> o.end_date.n]

\* the row a flush writes for an object, under the primary key pid
RowOf(o, pid) ==
    [id |-> pid, name |-> o.name.s, promotion_type |-> o.promotion_type.s,
     value |-> o.value.n, product_id |-> o.product_id.n,
     start_date |-> o.start_date.n, end_date |-> o.end_date.n]

\* Promotion.serialize() of a stored promotion
Serialize(r) ==
    [id |-> r.id, name |-> r.name, promotion_type |-> r.promotion_type,
     value |-> r.value, product_id |-> r.product_id,
     start_date |-> IsoFormat(r.start_date),
     end_date |-> IsoFormat(r.end_date)]

\* mutant of SerializeObject: the two dates change places
SerializeObject_SwapsDates(o) ==
    [id |-> o.id, name |-> o.name, promotion_type |-> o.promotion_type,
     value |-> o.value, product_id |-> o.product_id,
     start_date |-> IF o.end_date.t = "date"
                    THEN JStr(IsoFormat(o.end_date.n)) ELSE JNull,
     end_date |-> IF o.start_date.t = "date"
                  THEN JStr(IsoFormat(o.start_date.n)) ELSE JNull]

\* Promotion.serialize() of an object that is not stored: the attributes as
\* they are, a date as its ISO text, None for a date that is not set
SerializeObject(o) ==
    [id |-> o.id, name |-> o.name, promotion_type |-> o.promotion_type,
     value |-> o.value, product_id |-> o.product_id,
     start_date |-> IF o.start_date.t = "date"
                    THEN JStr(IsoFormat(o.start_date.n)) ELSE JNull,
     end_date |-> IF o.end_date.t = "date"
                  THEN JStr(IsoFormat(o.end_date.n)) ELSE JNull]

\* date.fromisoformat(data[key]) inside "try ... except Exception": a missing
\* key (KeyError), a value that is no string (TypeError) and a string that is
\* no date (ValueError) all fail
ParseDateField(v) ==
    IF v.t = "str" THEN FromIsoFormat(v.s) ELSE [ok |-> FALSE, d |-> 0]

\* Promotion.deserialize(data) on the object self: the error raised (err =
\* "none" when it returns), the field the message names, and the object as
\* the assignments made before the error leave it
Deserialize(self, data) ==
    IF data.kind # "dict"
    THEN \* data["name"] on a string, a number, a list or None: TypeError
         [err |-> "malformed", field |-> "", obj |-> self]
    ELSE
    LET m  == data.m
        o1 == [self EXCEPT !.name = m.name]
        o2 == [o1 EXCEPT !.promotion_type = m.promotion_type]
        o3 == [o2 EXCEPT !.value = m.value]
        o4 == [o3 EXCEPT !.product_id = m.product_id]
        sd == ParseDateField(m.start_date)
        o5 == [o4 EXCEPT !.start_date = JDate(sd.d)]
        ed == ParseDateField(m.end_date)
        o6 == [o5 EXCEPT !.end_date = JDate(ed.d)]
    IN  IF m.name.t = "absent"
        THEN [err |-> "missing", field |-> "name", obj |-> self]
        ELSE IF m.promotion_type.t = "absent"
        THEN [err |-> "missing", field |-> "promotion_type", obj |-> o1]
        ELSE IF ~IsInstanceInt(m.value)
        THEN [err |-> "type", field |-> "value", obj |-> o2]
        ELSE IF ~IsInstanceInt(m.product_id)
        THEN [err |-> "type", field |-> "product_id", obj |-> o3]
        ELSE IF ~sd.ok
        THEN [err |-> "date", field |-> "start_date", obj |-> o4]
        ELSE IF ~ed.ok
        THEN [err |-> "date", field |-> "end_date", obj |-> o5]
        ELSE [err |-> "none", field |-> "", obj |-> o6]

----------------------------------------------------------------------------
(* Queries of the model class *)

\* cls.query.session.get(cls, pid): the row of that primary key, if any
FindById(rs, pid) == {r \in rs : r.id = pid}

\* Promotion.find(by_id) for a text: int(by_id) first, None when it fails
Find(rs, text) ==
    LET p == ParseInt(text)
    IN  IF p.ok THEN FindById(rs, p.n) ELSE {}

\* Promotion.find_by_name(name)
FindByName(rs, name) == {r \in rs : r.name = name}

\* Promotion.find_by_promotion_type(promotion_type)
FindByPromotionType(rs, ptype) == {r \in rs : r.promotion_type = ptype}

\* Promotion.find_by_product_id(product_id) for a text
FindByProductId(rs, text) ==
    LET p == ParseInt(text)
    IN  IF p.ok THEN {r \in rs : r.product_id = p.n} ELSE {}

\* mutant of FindActive: the two ends of the window are excluded
FindActive_Exclusive(rs, on_date) ==
    {r \in rs : r.start_date < on_date /\ r.end_date > on_date}

\* Promotion.find_active(): on_date defaults to date.today()
FindActive(rs, on_date) ==
    {r \in rs : r.start_date <= on_date /\ r.end_date >= on_date}

\* mutant of FindInactive: both conditions are required
FindInactive_Both(rs, on_date) ==
    {r \in rs : r.start_date > on_date /\ r.end_date < on_date}

\* the query of the inactive branch of list_promotions
FindInactive(rs, on_date) ==
    {r \in rs : r.start_date > on_date \/ r.end_date < on_date}

\* Promotion.all()
All(rs) == rs

----------------------------------------------------------------------------
(* Requests and responses *)

Params == {"id", "active", "name", "product_id", "promotion_type"}

\* one query parameter: request.args.get(p) is None when it is not present
NoArg  == [present |-> FALSE, s |-> <<>>]
Arg(s) == [present |-> TRUE, s |-> s]
NoArgs == [p \in Params |-> NoArg]

\* the truth value Python gives the id of an object: None and 0 are false
TruthyId(v) == ~(v.t = "null" \/ (v.t = "int" /\ v.n = 0))

\* the truth value Python gives request.args.get(p): None and "" are false
Truthy(a) == a.present /\ a.s # <<>>

\* what the store does with the write of a request: it takes it, or it fails
\* (the connection is lost, a constraint is violated)
StoreFailures == {"connection", "constraint"}
StoreOutcomes == {"ok"} \cup StoreFailures

NoRequest == [op |-> "none", id |-> 0, args |-> NoArgs, data |-> JNone]
NoResponse == [status |-> 0, body |-> {}, err |-> "", field |-> "", loc |-> 0]

\* jsonify(...), 200: one serialized promotion or a list of them
Ok(rs) == [status |-> 200, body |-> {Serialize(r) : r \in rs}, err |-> "",
           field |-> "", loc |-> 0]

\* abort(code, message) and the error handlers of common/error_handlers.py
Error(code, err, field) ==
    [status |-> code, body |-> {}, err |-> err, field |-> field, loc |-> 0]

\* mutant of DatabaseErrorResponse: the message is the text of the exception
DatabaseErrorResponse_Leaks(error) == Error(500, "unexpected", error)

\* database_error(error): 500 with a fixed message; the exception is logged
DatabaseErrorResponse(error) == Error(500, "unexpected", "")

\* internal_server_error(error): 500 with the same fixed message
InternalServerError == Error(500, "unexpected", "")

\* the 404 of a path id that is not stored
NotFound == Error(404, "not_found", "")

\* check_content_type("application/json")
CheckContentType(json) == json

\* mutant of ParseBoolStrict: a value that is not recognised counts as false
ParseBoolStrict_Lenient(value) ==
    LET v == Lower(Strip(value))
    IN  IF v \in {<<"t","r","u","e">>, <<"1">>, <<"y","e","s">>} THEN "true"
        ELSE "false"

\* _parse_bool_strict(value): "true", "false" or "none" for True, False, None
ParseBoolStrict(value) ==
    LET v == Lower(Strip(value))
    IN  IF v \in {<<"t","r","u","e">>, <<"1">>, <<"y","e","s">>} THEN "true"
        ELSE IF v \in {<<"f","a","l","s","e">>, <<"0">>, <<"n","o">>}
        THEN "false"
        ELSE "none"

\* list_promotions(): the response to GET /promotions with the query
\* parameters args, on the table rs, on the day td
ListPromotions(rs, td, args) ==
    IF Truthy(args.id)
    THEN Ok(Find(rs, args.id.s))
    ELSE IF args.active.present
    THEN LET active == ParseBoolStrict(args.active.s)
         IN  IF active = "none" THEN Error(400, "bad_active", "active")
             ELSE IF active = "true" THEN Ok(FindActive(rs, td))
             ELSE Ok(FindInactive(rs, td))
    ELSE IF Truthy(args.name)
    THEN Ok(FindByName(rs, Strip(args.name.s)))
    ELSE IF Truthy(args.product_id)
    THEN Ok(FindByProductId(rs, Strip(args.product_id.s)))
    ELSE IF Truthy(args.promotion_type)
    THEN Ok(FindByPromotionType(rs, Strip(args.promotion_type.s)))
    ELSE Ok(All(rs))

\* mutants of DeactivatedEndDate: the end date is always moved to yesterday;
\* max is taken for min; the end date is pulled back to today
DeactivatedEndDate_Yesterday(end_date, td) == td - 1

DeactivatedEndDate_Max(end_date, td) ==
    IF end_date >= td - 1 THEN end_date ELSE td - 1

DeactivatedEndDate_Today(end_date, td) ==
    IF end_date <= td THEN end_date ELSE td

\* the end date deactivate_promotion() writes: min(end_date, today - 1 day)
DeactivatedEndDate(end_date, td) ==
    LET yesterday == td - 1
    IN  IF end_date <= yesterday THEN end_date ELSE yesterday

\* str(v) of a JSON value, as update_promotions() compares it with the path id
StrOf(v) ==
    CASE v.t = "str"  -> v.s
      [] v.t = "int"  -> IF v.n >= 0 THEN Decimal(v.n)
                         ELSE <<"-">> \o Decimal(0 - v.n)
      [] v.t = "bool" -> IF v.n = 1 THEN <<"T","r","u","e">>
                         ELSE <<"F","a","l","s","e">>
      [] OTHER        -> <<"N","o","n","e">>

----------------------------------------------------------------------------
(* The history of deactivations *)

\* n: successful deactivations (2 stands for two or more); end: the end date
\* the first of them left; last: the day of the latest
\* gone: the promotion of the id has been deleted
NoDeactivation == [n |-> 0, end |-> 0, last |-> 0, gone |-> FALSE]

Recorded(h, end_date, td) ==
    IF h.n = 0 THEN [n |-> 1, end |-> end_date, last |-> td, gone |-> h.gone]
    ELSE [h EXCEPT !.n = 2, !.last = td]

\* The history after a request, read off the request and its response: a
\* successful deactivation is recorded, a successful update or delete of the
\* id starts its history of deactivations again, a successful delete is
\* remembered.
Track ==
    deactivated' =
        IF req'.op = "deactivate" /\ resp'.status = 200
        THEN [deactivated EXCEPT ![req'.id] =
                Recorded(@, (CHOOSE r \in rows' : r.id = req'.id).end_date,
                         today)]
        ELSE IF req'.op = "update" /\ resp'.status = 200
        THEN [deactivated EXCEPT ![req'.id] =
                [NoDeactivation EXCEPT !.gone = deactivated[req'.id].gone]]
        ELSE IF req'.op = "delete" /\ resp'.status = 204
        THEN [deactivated EXCEPT ![req'.id] =
                [NoDeactivation EXCEPT !.gone = TRUE]]
        ELSE deactivated

----------------------------------------------------------------------------
(* The state machine: one action per request handler *)

\* GET /promotions
List(args) ==
    /\ req' = [NoRequest EXCEPT !.op = "list", !.args = args]
    /\ resp' = ListPromotions(rows, today, args)
    /\ UNCHANGED <<rows, nextId, today>>

\* get_promotions(promotion_id): the response to GET /promotions/<id> on the
\* table rs
GetPromotions(rs, pid) ==
    IF FindById(rs, pid) = {} THEN NotFound ELSE Ok(FindById(rs, pid))

\* mutant of Get: an id that is not stored is answered with an empty result
Get_EmptyResult(pid) ==
    /\ req' = [NoRequest EXCEPT !.op = "get", !.id = pid]
    /\ resp' = Ok(FindById(rows, pid))
    /\ UNCHANGED <<rows, nextId, today>>

\* GET /promotions/<id>
Get(pid) ==
    /\ req' = [NoRequest EXCEPT !.op = "get", !.id = pid]
    /\ resp' = GetPromotions(rows, pid)
    /\ UNCHANGED <<rows, nextId, today>>

\* mutant of Create: the key of the new row is the smallest one not in use
Create_ReusesIds(data, json, f) ==
    LET d   == Deserialize(NewPromotion, data)
        new == RowOf(d.obj, CHOOSE i \in 1..nextId :
                               /\ \A r \in rows : r.id # i
                               /\ \A k \in 1..(i - 1) : \E r \in rows : r.id = k)
    IN
        /\ nextId <= MaxId
        /\ req' = [NoRequest EXCEPT !.op = "create"]
        /\ IF ~CheckContentType(json)
           THEN /\ f = "ok"
                /\ resp' = Error(415, "media_type", "")
                /\ UNCHANGED <<rows, nextId>>
           ELSE IF d.err # "none"
           THEN /\ f = "ok"
                /\ resp' = Error(400, d.err, d.field)
                /\ UNCHANGED <<rows, nextId>>
           ELSE IF ~Storable(d.obj) \/ f # "ok"
           THEN /\ ~Storable(d.obj) => f = "constraint"
                /\ resp' = DatabaseErrorResponse(f)
                /\ nextId' \in {nextId, nextId + 1}
                /\ UNCHANGED rows
           ELSE /\ rows' = rows \cup {new}
                /\ nextId' = nextId + 1
                /\ resp' = [Ok({new}) EXCEPT !.status = 201, !.loc = new.id]
        /\ UNCHANGED today

\* POST /promotions: check_content_type, deserialize, Promotion.create().
\* f is what the store does when create() writes: it takes the row or fails.
Create(data, json, f) ==
    LET d   == Deserialize(NewPromotion, data)
        new == RowOf(d.obj, nextId)
    IN
        /\ nextId <= MaxId
        /\ req' = [NoRequest EXCEPT !.op = "create"]
        /\ IF ~CheckContentType(json)
           THEN /\ f = "ok"
                /\ resp' = Error(415, "media_type", "")
                /\ UNCHANGED <<rows, nextId>>
           ELSE IF d.err # "none"
           THEN /\ f = "ok"
                /\ resp' = Error(400, d.err, d.field)
                /\ UNCHANGED <<rows, nextId>>
           ELSE IF ~Storable(d.obj) \/ f # "ok"
           THEN \* the INSERT or the commit fails: rollback, DatabaseError,
                \* 500; a row the columns cannot take is refused by the
                \* database; whether the failed INSERT has used up a key is
                \* left to the database
                /\ ~Storable(d.obj) => f = "constraint"
                /\ resp' = DatabaseErrorResponse(f)
                /\ nextId' \in {nextId, nextId + 1}
                /\ UNCHANGED rows
           ELSE /\ rows' = rows \cup {new}
                /\ nextId' = nextId + 1
                /\ resp' = [Ok({new}) EXCEPT !.status = 201, !.loc = new.id]
        /\ UNCHANGED today

\* mutant of Update: the assignments deserialize made before it failed are
\* written to the table
Update_KeepsPartial(pid, data, json, f) ==
    LET found == FindById(rows, pid)
        p     == CHOOSE r \in found : TRUE
        d     == Deserialize(Loaded(p), data)
        new   == RowOf(d.obj, pid)
    IN
        /\ req' = [NoRequest EXCEPT !.op = "update", !.id = pid]
        /\ IF ~CheckContentType(json)
           THEN f = "ok" /\ resp' = Error(415, "media_type", "")
                /\ UNCHANGED rows
           ELSE IF found = {}
           THEN f = "ok" /\ resp' = NotFound /\ UNCHANGED rows
           ELSE IF data.kind \in {"null", "int"}
           THEN f = "ok" /\ resp' = InternalServerError /\ UNCHANGED rows
           ELSE IF data.kind = "dict" /\ data.m.id.t # "absent"
                   /\ StrOf(data.m.id) # Decimal(pid)
           THEN f = "ok" /\ resp' = Error(400, "id_mismatch", "id")
                /\ UNCHANGED rows
           ELSE IF d.err # "none"
           THEN /\ f = "ok"
                /\ resp' = Error(400, d.err, d.field)
                /\ rows' = IF Storable(d.obj) THEN (rows \ {p}) \cup {new}
                           ELSE rows
           ELSE IF ~Storable(d.obj) \/ f # "ok"
           THEN /\ ~Storable(d.obj) => f = "constraint"
                /\ resp' = DatabaseErrorResponse(f)
                /\ UNCHANGED rows
           ELSE /\ rows' = (rows \ {p}) \cup {new}
                /\ resp' = Ok({new})
        /\ UNCHANGED <<nextId, today>>

\* mutant of Update: the id of the body, when it has one, becomes the id of
\* the row
Update_TakesBodyId(pid, data, json, f) ==
    LET found == FindById(rows, pid)
        p     == CHOOSE r \in found : TRUE
        d     == Deserialize(Loaded(p), data)
        new   == RowOf(d.obj, IF data.kind = "dict" /\ data.m.id.t = "int"
                              THEN data.m.id.n ELSE pid)
    IN
        /\ req' = [NoRequest EXCEPT !.op = "update", !.id = pid]
        /\ IF ~CheckContentType(json)
           THEN f = "ok" /\ resp' = Error(415, "media_type", "")
                /\ UNCHANGED rows
           ELSE IF found = {}
           THEN f = "ok" /\ resp' = NotFound /\ UNCHANGED rows
           ELSE IF data.kind \in {"null", "int"}
           THEN f = "ok" /\ resp' = InternalServerError /\ UNCHANGED rows
           ELSE IF d.err # "none"
           THEN f = "ok" /\ resp' = Error(400, d.err, d.field)
                /\ UNCHANGED rows
           ELSE IF pid = 0
           THEN f = "ok" /\ resp' = Error(400, "id_required", "id")
                /\ UNCHANGED rows
           ELSE IF ~Storable(d.obj) \/ f # "ok"
           THEN /\ ~Storable(d.obj) => f = "constraint"
                /\ resp' = DatabaseErrorResponse(f)
                /\ UNCHANGED rows
           ELSE /\ rows' = (rows \ {p}) \cup {new}
                /\ resp' = Ok({new})
        /\ UNCHANGED <<nextId, today>>

\* mutant of Update: the stored name is kept
Update_KeepsName(pid, data, json, f) ==
    LET found == FindById(rows, pid)
        p     == CHOOSE r \in found : TRUE
        d     == Deserialize(Loaded(p), data)
        new   == [RowOf(d.obj, pid) EXCEPT !.name = p.name]
    IN
        /\ req' = [NoRequest EXCEPT !.op = "update", !.id = pid]
        /\ IF ~CheckContentType(json)
           THEN f = "ok" /\ resp' = Error(415, "media_type", "")
                /\ UNCHANGED rows
           ELSE IF found = {}
           THEN f = "ok" /\ resp' = NotFound /\ UNCHANGED rows
           ELSE IF data.kind \in {"null", "int"}
           THEN f = "ok" /\ resp' = InternalServerError /\ UNCHANGED rows
           ELSE IF data.kind = "dict" /\ data.m.id.t # "absent"
                   /\ StrOf(data.m.id) # Decimal(pid)
           THEN f = "ok" /\ resp' = Error(400, "id_mismatch", "id")
                /\ UNCHANGED rows
           ELSE IF d.err # "none"
           THEN f = "ok" /\ resp' = Error(400, d.err, d.field)
                /\ UNCHANGED rows
           ELSE IF pid = 0
           THEN f = "ok" /\ resp' = Error(400, "id_required", "id")
                /\ UNCHANGED rows
           ELSE IF ~Storable(d.obj) \/ f # "ok"
           THEN /\ ~Storable(d.obj) => f = "constraint"
                /\ resp' = DatabaseErrorResponse(f)
                /\ UNCHANGED rows
           ELSE /\ rows' = (rows \ {p}) \cup {new}
                /\ resp' = Ok({new})
        /\ UNCHANGED <<nextId, today>>

\* PUT /promotions/<id>: check_content_type, find, the id check,
\* deserialize onto the stored object, Promotion.update().
\* f is what the store does when update() commits: "ok" or a failure.
Update(pid, data, json, f) ==
    LET found == FindById(rows, pid)
        p     == CHOOSE r \in found : TRUE
        d     == Deserialize(Loaded(p), data)
        new   == RowOf(d.obj, pid)
    IN
        /\ req' = [NoRequest EXCEPT !.op = "update", !.id = pid]
        /\ IF ~CheckContentType(json)
           THEN f = "ok" /\ resp' = Error(415, "media_type", "")
                /\ UNCHANGED rows
           ELSE IF found = {}
           THEN f = "ok" /\ resp' = NotFound /\ UNCHANGED rows
           ELSE IF data.kind \in {"null", "int"}
           THEN \* "id" in data raises TypeError, which no handler catches
                f = "ok" /\ resp' = InternalServerError /\ UNCHANGED rows
           ELSE IF data.kind = "dict" /\ data.m.id.t # "absent"
                   /\ StrOf(data.m.id) # Decimal(pid)
           THEN f = "ok" /\ resp' = Error(400, "id_mismatch", "id")
                /\ UNCHANGED rows
           ELSE IF d.err # "none"
           THEN \* the assignments deserialize made to the loaded object stay
                \* in the session, which is removed, uncommitted, with the
                \* request
                f = "ok" /\ resp' = Error(400, d.err, d.field)
                /\ UNCHANGED rows
           ELSE IF pid = 0
           THEN \* Promotion.update(): "if not self.id"
                f = "ok" /\ resp' = Error(400, "id_required", "id")
                /\ UNCHANGED rows
           ELSE IF ~Storable(d.obj) \/ f # "ok"
           THEN \* the commit fails: rollback, DatabaseError, 500
                /\ ~Storable(d.obj) => f = "constraint"
                /\ resp' = DatabaseErrorResponse(f)
                /\ UNCHANGED rows
           ELSE /\ rows' = (rows \ {p}) \cup {new}
                /\ resp' = Ok({new})
        /\ UNCHANGED <<nextId, today>>

\* mutant of Deactivate: the start date is clamped to the new end date
Deactivate_ClampsStart(pid, f) ==
    LET found == FindById(rows, pid)
        p     == CHOOSE r \in found : TRUE
        e     == DeactivatedEndDate(p.end_date, today)
        new   == [p EXCEPT !.end_date = e,
                           !.start_date = IF @ > e THEN e ELSE @]
    IN
        /\ req' = [NoRequest EXCEPT !.op = "deactivate", !.id = pid]
        /\ IF found = {}
           THEN f = "ok" /\ resp' = NotFound /\ UNCHANGED rows
           ELSE IF f # "ok"
           THEN resp' = DatabaseErrorResponse(f) /\ UNCHANGED rows
           ELSE /\ rows' = (rows \ {p}) \cup {new}
                /\ resp' = Ok({new})
        /\ UNCHANGED <<nextId, today>>

\* mutant of Deactivate: a failure of the store is answered as a bad request
Deactivate_StoreFailureIs400(pid, f) ==
    LET found == FindById(rows, pid)
        p     == CHOOSE r \in found : TRUE
        new   == [p EXCEPT !.end_date = DeactivatedEndDate(p.end_date, today)]
    IN
        /\ req' = [NoRequest EXCEPT !.op = "deactivate", !.id = pid]
        /\ IF found = {}
           THEN f = "ok" /\ resp' = NotFound /\ UNCHANGED rows
           ELSE IF f # "ok"
           THEN resp' = Error(400, "store", "") /\ UNCHANGED rows
           ELSE /\ rows' = (rows \ {p}) \cup {new}
                /\ resp' = Ok({new})
        /\ UNCHANGED <<nextId, today>>

\* PUT /promotions/<id>/deactivate.
\* f is what the store does when update() commits: "ok" or a failure.
Deactivate(pid, f) ==
    LET found == FindById(rows, pid)
        p     == CHOOSE r \in found : TRUE
        new   == [p EXCEPT !.end_date = DeactivatedEndDate(p.end_date, today)]
    IN
        /\ req' = [NoRequest EXCEPT !.op = "deactivate", !.id = pid]
        /\ IF found = {}
           THEN f = "ok" /\ resp' = NotFound /\ UNCHANGED rows
           ELSE IF pid = 0
           THEN \* Promotion.update(): "if not self.id"
                f = "ok" /\ resp' = Error(400, "id_required", "id")
                /\ UNCHANGED rows
           ELSE IF f # "ok"
           THEN \* the commit fails: rollback, DatabaseError, which the
                \* handler does not catch, 500
                resp' = DatabaseErrorResponse(f) /\ UNCHANGED rows
           ELSE /\ rows' = (rows \ {p}) \cup {new}
                /\ resp' = Ok({new})
        /\ UNCHANGED <<nextId, today>>

\* mutant of Delete: an id that is not stored is answered 204
Delete_Tolerant(pid, f) ==
    LET found == FindById(rows, pid)
    IN
        /\ req' = [NoRequest EXCEPT !.op = "delete", !.id = pid]
        /\ IF found = {}
           THEN f = "ok" /\ resp' = [NoResponse EXCEPT !.status = 204]
                /\ UNCHANGED rows
           ELSE IF f # "ok"
           THEN resp' = DatabaseErrorResponse(f) /\ UNCHANGED rows
           ELSE /\ rows' = rows \ found
                /\ resp' = [NoResponse EXCEPT !.status = 204]
        /\ UNCHANGED <<nextId, today>>

\* mutant of Delete: 204 is answered and the promotion stays stored
Delete_KeepsRow(pid, f) ==
    LET found == FindById(rows, pid)
    IN
        /\ req' = [NoRequest EXCEPT !.op = "delete", !.id = pid]
        /\ IF found = {}
           THEN f = "ok" /\ resp' = NotFound /\ UNCHANGED rows
           ELSE IF f # "ok"
           THEN resp' = DatabaseErrorResponse(f) /\ UNCHANGED rows
           ELSE /\ rows' = rows
                /\ resp' = [NoResponse EXCEPT !.status = 204]
        /\ UNCHANGED <<nextId, today>>

\* DELETE /promotions/<id>.
\* f is what the store does when delete() commits: "ok" or a failure.
Delete(pid, f) ==
    LET found == FindById(rows, pid)
    IN
        /\ req' = [NoRequest EXCEPT !.op = "delete", !.id = pid]
        /\ IF found = {}
           THEN f = "ok" /\ resp' = NotFound /\ UNCHANGED rows
           ELSE IF f # "ok"
           THEN \* the commit fails: rollback, DatabaseError, 500
                resp' = DatabaseErrorResponse(f) /\ UNCHANGED rows
           ELSE /\ rows' = rows \ found
                /\ resp' = [NoResponse EXCEPT !.status = 204]
        /\ UNCHANGED <<nextId, today>>

\* promotion.update(), called directly on an object o that was made with
\* Promotion() and not loaded from the table: "if not self.id" raises the
\* validation error; otherwise the session is committed, and as o is not in
\* the session nothing is written for it.
\* f is what the store does with the commit: "ok" or a failure.
UpdateCall(o, f) ==
    /\ req' = [NoRequest EXCEPT !.op = "model_update",
                                !.id = IF o.id.t = "int" THEN o.id.n ELSE 0]
    /\ IF ~TruthyId(o.id)
       THEN f = "ok" /\ resp' = [NoResponse EXCEPT !.err = "id_required",
                                                   !.field = "id"]
       ELSE IF f # "ok"
       THEN resp' = [NoResponse EXCEPT !.err = "database"]
       ELSE resp' = [NoResponse EXCEPT !.err = "none"]
    /\ UNCHANGED <<rows, nextId, today>>

\* promotion = Promotion(); promotion.deserialize(data), called directly on
\* the argument the run started with, and promotion.serialize() of the
\* object it returns
DeserializeCall ==
    LET d == Deserialize(NewPromotion, req.data)
    IN  /\ req.op = "deserialize"
        /\ resp = NoResponse
        /\ resp' = [NoResponse EXCEPT
                       !.err = d.err, !.field = d.field,
                       !.body = IF d.err = "none"
                                THEN {SerializeObject(d.obj)} ELSE {}]
        /\ UNCHANGED <<rows, nextId, today, req>>

\* midnight: date.today() moves to the next day
Tick ==
    /\ today < MaxToday
    /\ today' = today + 1
    /\ UNCHANGED <<rows, nextId, req, resp>>

----------------------------------------------------------------------------
(* Requests that are handled at the same time *)

(***************************************************************************)
(* Each worker of the server handles its request in a database session of  *)
(* its own. find() loads the row into the session; the handler changes the *)
(* loaded object; update() commits, and the flush of the commit writes, in *)
(* one UPDATE of the row of the primary key, the columns whose attribute   *)
(* differs from the value that was loaded. Nothing in find, in the handler *)
(* or in update() locks the row or reads it again.                         *)
(***************************************************************************)

\* the workers that handle requests at the same time
Workers == {1, 2}

\* no row: the session has loaded nothing
NoRow ==
    [id |-> 0, name |-> <<>>, promotion_type |-> <<>>, value |-> 0,
     product_id |-> 0, start_date |-> 0, end_date |-> 0]

\* a worker with no request: op and data are the handler and the body of its
\* request, loaded the row find() read, obj the object of the session;
\* order counts the commits up to its own one (history)
Idle ==
    [pc |-> "idle", op |-> "none", id |-> 0, data |-> JNone,
     loaded |-> NoRow, obj |-> NoRow, status |-> 0, order |-> 0]

\* base is the row the first find() read and commits the number of commits
\* (history)
NoneInFlight ==
    [base |-> NoRow, commits |-> 0, t |-> [w \in Workers |-> Idle]]

AllIdle == \A w \in Workers : inflight.t[w].pc = "idle"

\* the row after the UPDATE of a flush: the columns whose attribute differs
\* from the loaded value are written, the others are left as they are stored
Flush(stored, loaded, obj) ==
    [k \in DOMAIN stored |-> IF obj[k] # loaded[k] THEN obj[k] ELSE stored[k]]

\* Promotion.find(promotion_id) of a PUT /promotions/<id> (op "update", with
\* a JSON body data) or of a PUT /promotions/<id>/deactivate (op
\* "deactivate"), in the session of worker w: 404 when nothing is found.
\* The requests in flight name the same id.
FindStep(w, op, pid, data) ==
    LET found == FindById(rows, pid)
        p     == CHOOSE r \in found : TRUE
        me    == inflight.t[w]
    IN
        /\ me.pc = "idle"
        /\ \A v \in Workers : inflight.t[v].pc # "idle" => inflight.t[v].id = pid
        /\ inflight' =
             IF found = {}
             THEN [inflight EXCEPT
                      !.t[w] = [me EXCEPT !.pc = "done", !.op = op, !.id = pid,
                                          !.data = data, !.status = 404]]
             ELSE [inflight EXCEPT
                      !.base = IF inflight.base = NoRow THEN p ELSE @,
                      !.t[w] = [me EXCEPT !.pc = "found", !.op = op, !.id = pid,
                                          !.data = data, !.loaded = p,
                                          !.obj = p]]
        /\ UNCHANGED <<rows, nextId, today, req, resp, deactivated>>

\* The handler changes the object of its session: promotion.deserialize(data)
\* and promotion.id = promotion_id for an update (400 when deserialize
\* raises), promotion.end_date = min(promotion.end_date, yesterday) for a
\* deactivate.
MutateStep(w) ==
    LET me == inflight.t[w]
        d  == Deserialize(Loaded(me.loaded), me.data)
    IN
        /\ me.pc = "found"
        /\ inflight' =
             IF me.op = "update"
             THEN IF d.err # "none" \/ ~Storable(d.obj)
                  THEN [inflight EXCEPT
                           !.t[w] = [me EXCEPT !.pc = "done",
                                       !.status = IF d.err # "none"
                                                  THEN 400 ELSE 500]]
                  ELSE [inflight EXCEPT
                           !.t[w] = [me EXCEPT !.pc = "mutated",
                                               !.obj = RowOf(d.obj, me.id)]]
             ELSE [inflight EXCEPT
                      !.t[w] = [me EXCEPT
                                  !.pc = "mutated",
                                  !.obj = [me.loaded EXCEPT !.end_date =
                                             DeactivatedEndDate(
                                                 me.loaded.end_date, today)]]]
        /\ UNCHANGED <<rows, nextId, today, req, resp, deactivated>>

\* promotion.update(): db.session.commit() flushes the changed attributes to
\* the row of the id, as it is stored by then, and the handler answers 200.
\* A row that is gone by then makes the flush fail: rollback, DatabaseError,
\* 500.
CommitStep(w) ==
    LET me     == inflight.t[w]
        found  == FindById(rows, me.id)
        stored == CHOOSE r \in found : TRUE
        n      == inflight.commits + 1
    IN
        /\ me.pc = "mutated"
        /\ IF found = {}
           THEN /\ inflight' = [inflight EXCEPT
                                  !.t[w] = [me EXCEPT !.pc = "done",
                                                      !.status = 500]]
                /\ UNCHANGED rows
           ELSE /\ rows' = (rows \ found)
                              \cup {Flush(stored, me.loaded, me.obj)}
                /\ inflight' = [inflight EXCEPT
                                  !.commits = n,
                                  !.t[w] = [me EXCEPT !.pc = "done",
                                                      !.status = 200,
                                                      !.order = n]]
        /\ UNCHANGED <<nextId, today, req, resp, deactivated>>

----------------------------------------------------------------------------
(* Inputs *)

\* the ids a path can name: the keys of the run, stored or not
PathIds == 1..MaxId

\* a JSON object with the six fields of a promotion
Body(name, ptype, value, product_id, start_date, end_date) ==
    JDict([NoFields EXCEPT !.name = name, !.promotion_type = ptype,
                           !.value = value, !.product_id = product_id,
                           !.start_date = start_date, !.end_date = end_date])

\* the ISO text of a day, as a JSON string
Day(d) == JStr(IsoFormat(d))

\* Bodies of the create and update requests of Spec. The valid ones differ in
\* every field; their windows are: open until after the last day of the run,
\* ended on the day before the first, and the single first day.
LongRunning == Body(JStr(<<"a">>), JStr(<<"x">>), JInt(1), JInt(1),
                    Day(1), Day(MaxToday + 1))
Ended       == Body(JStr(<<"b">>), JStr(<<"y">>), JInt(2), JInt(2),
                    Day(FirstToday), Day(FirstToday - 1))
OneDay      == Body(JStr(<<"a">>), JStr(<<"y">>), JInt(1), JInt(2),
                    Day(FirstToday), Day(FirstToday))
ValidBodies == {LongRunning, Ended, OneDay}

InvalidBodies ==
    { [LongRunning EXCEPT !.m.value = JAbsent],
      [LongRunning EXCEPT !.m.end_date = JStr(<<"x","x">>)],
      [LongRunning EXCEPT !.m.name = JNull],
      JText }

\* <<body, whether the content type is application/json>>
Posts == {<<d, TRUE>> : d \in ValidBodies \cup InvalidBodies}
             \cup {<<LongRunning, FALSE>>,
                   <<[Ended EXCEPT !.m.id = JInt(1)], TRUE>>}

Puts == {<<d, TRUE>> : d \in ValidBodies}
            \cup {<<[LongRunning EXCEPT !.m.value = JAbsent], TRUE>>,
                  <<[OneDay EXCEPT !.m.id = JInt(MaxId + 1)], TRUE>>,
                  <<JNone, TRUE>>, <<LongRunning, FALSE>>}

OnlyActive(s) == [NoArgs EXCEPT !.active = Arg(s)]

\* the queries of Spec
Queries == {NoArgs, OnlyActive(<<"t","r","u","e">>)}

\* Bodies of the create requests of SpecQuery: stored promotions with a blank
\* or padded name or type, and windows that are open on every day of the run,
\* end on its first day, start on its last day, or end before they start
Blank    == Body(JStr(<<>>), JStr(<<>>), JInt(2), JInt(2),
                 Day(1), Day(FirstToday))
Padded   == Body(JStr(<<" ","a">>), JStr(<<"x">>), JInt(1), JInt(1),
                 Day(MaxToday), Day(MaxToday + 1))
Inverted == Body(JStr(<<"a">>), JStr(<<"y">>), JInt(1), JInt(2),
                 Day(MaxToday + 1), Day(1))
QueryBodies == {LongRunning, Blank, Padded, Inverted}

\* values of the query parameters
IdTexts        == {<<>>, <<"1">>, <<"x">>}
ActiveTrueTexts  == {<<"t","r","u","e">>, <<"1">>, <<" ","Y","E","S"," ">>}
ActiveFalseTexts == {<<"f","a","l","s","e">>, <<"0">>, <<"N","o"," ">>}
ActiveBadTexts   == {<<"m","a","y","b","e">>, <<>>}
ActiveTexts    == ActiveTrueTexts \cup ActiveFalseTexts \cup ActiveBadTexts
NameTexts      == {<<>>, <<" ">>, <<" ","a"," ">>}
ProductIdTexts == {<<>>, <<"1">>, <<"x">>}
TypeTexts      == {<<>>, <<" ">>, <<"x">>}

Texts(p) ==
    CASE p = "id"         -> IdTexts
      [] p = "active"     -> ActiveTexts
      [] p = "name"       -> NameTexts
      [] p = "product_id" -> ProductIdTexts
      [] OTHER            -> TypeTexts

\* the queries of SpecQuery: no parameter, one parameter, or two of them
QueryArgs ==
    {NoArgs} \cup
    UNION { { [NoArgs EXCEPT ![p] = Arg(a), ![q] = Arg(b)] :
                a \in Texts(p), b \in Texts(q) } : p \in Params, q \in Params }

\* objects with the six fields correctly typed: names and types with blanks
\* and capitals, integers of either sign, days of one and of two digits
ValidPayloads ==
    { Body(JStr(n), JStr(t), JInt(v), JInt(p), Day(sd), Day(ed)) :
        n  \in {<<"a">>, <<>>, <<" ","A"," ">>},
        t  \in {<<"x">>, <<"Y">>},
        v  \in {0 - 1, 0, 12},
        p  \in {1, 7},
        sd \in {1, 10, 31},
        ed \in {1, 2, 29} }

\* objects of the direct calls of update: a deserialized promotion with no
\* id, the id 0, and ids that are stored or not
UpdateObjects ==
    { [Deserialize(NewPromotion, LongRunning).obj EXCEPT !.id = i] :
        i \in {JNull} \cup {JInt(n) : n \in 0..(MaxId + 1)} }

\* arguments of the direct calls of deserialize: objects in which each of the
\* six fields is absent, well typed or ill typed, and values that are no object
DeserializeInputs ==
    { Body(n, t, v, p, sd, ed) :
        n  \in {JAbsent, JStr(<<"a">>), JNull},
        t  \in {JAbsent, JStr(<<"x">>)},
        v  \in {JAbsent, JInt(1), JStr(<<"1">>), JBool(TRUE), JNull, JFloat(1)},
        p  \in {JAbsent, JInt(1), JStr(<<"x">>)},
        sd \in {JAbsent, Day(1), JStr(<<"1">>), JInt(5), JStr(<<"3","2">>)},
        ed \in {JAbsent, Day(2), JStr(<<"x","x">>)} }
    \cup {JText, JNone, JList, JNumber}
    \cup ValidPayloads

----------------------------------------------------------------------------
(* The service *)

Init ==
    /\ rows = {}
    /\ nextId = 1
    /\ today = FirstToday
    /\ req = NoRequest
    /\ resp = NoResponse
    /\ deactivated = [i \in PathIds |-> NoDeactivation]
    /\ inflight = NoneInFlight

Next ==
    \/ \E p \in Posts, f \in StoreOutcomes :
          Create(p[1], p[2], f) /\ UNCHANGED <<deactivated, inflight>>
    \/ \E pid \in PathIds, p \in Puts, f \in StoreOutcomes :
          Update(pid, p[1], p[2], f) /\ UNCHANGED <<deactivated, inflight>>
    \/ \E pid \in PathIds, f \in StoreOutcomes :
          Deactivate(pid, f) /\ UNCHANGED <<deactivated, inflight>>
    \/ \E pid \in PathIds, f \in StoreOutcomes :
          Delete(pid, f) /\ UNCHANGED <<deactivated, inflight>>
    \/ \E pid \in PathIds : Get(pid) /\ UNCHANGED <<deactivated, inflight>>
    \/ \E a \in Queries : List(a) /\ UNCHANGED <<deactivated, inflight>>
    \/ Tick /\ UNCHANGED <<deactivated, inflight>>

Spec == Init /\ [][Next]_vars

\* The mutating requests with valid bodies, on a store that does not fail,
\* and the history of deactivations
NextHistory ==
    \/ \E d \in ValidBodies : Create(d, TRUE, "ok") /\ Track /\ UNCHANGED inflight
    \/ \E pid \in PathIds, d \in ValidBodies :
          Update(pid, d, TRUE, "ok") /\ Track /\ UNCHANGED inflight
    \/ \E pid \in PathIds : Deactivate(pid, "ok") /\ Track /\ UNCHANGED inflight
    \/ \E pid \in PathIds : Delete(pid, "ok") /\ Track /\ UNCHANGED inflight
    \/ Tick /\ UNCHANGED <<deactivated, inflight>>

SpecHistory == Init /\ [][NextHistory]_vars

\* Creating promotions, on a store that does not fail, and querying them
NextQuery ==
    \/ \E d \in QueryBodies : Create(d, TRUE, "ok") /\ UNCHANGED <<deactivated, inflight>>
    \/ \E a \in QueryArgs : List(a) /\ UNCHANGED <<deactivated, inflight>>
    \/ Tick /\ UNCHANGED <<deactivated, inflight>>

SpecQuery == Init /\ [][NextQuery]_vars

\* Direct calls of Promotion.update beside creates and deletes
NextModel ==
    \/ \E d \in ValidBodies : Create(d, TRUE, "ok") /\ UNCHANGED <<deactivated, inflight>>
    \/ \E pid \in PathIds : Delete(pid, "ok") /\ UNCHANGED <<deactivated, inflight>>
    \/ \E o \in UpdateObjects, f \in StoreOutcomes :
          UpdateCall(o, f) /\ UNCHANGED <<deactivated, inflight>>

SpecModel == Init /\ [][NextModel]_vars

\* Two requests on one id that are handled at the same time, a step of one
\* between the steps of the other. The promotions are created, and midnight
\* passes, before the first of them starts.
NextConcurrent ==
    \/ \E d \in ValidBodies :
          /\ AllIdle
          /\ Create(d, TRUE, "ok") /\ UNCHANGED <<deactivated, inflight>>
    \/ AllIdle /\ Tick /\ UNCHANGED <<deactivated, inflight>>
    \/ \E w \in Workers, pid \in PathIds, d \in ValidBodies :
          FindStep(w, "update", pid, d)
    \/ \E w \in Workers, pid \in PathIds :
          FindStep(w, "deactivate", pid, JNone)
    \/ \E w \in Workers : MutateStep(w)
    \/ \E w \in Workers : CommitStep(w)

SpecConcurrent == Init /\ [][NextConcurrent]_vars

\* Direct calls of Promotion.deserialize, one per run
InitDeserialize ==
    /\ rows = {}
    /\ nextId = 1
    /\ today = FirstToday
    /\ req \in {[NoRequest EXCEPT !.op = "deserialize", !.data = d] :
                   d \in DeserializeInputs}
    /\ resp = NoResponse
    /\ deactivated = [i \in PathIds |-> NoDeactivation]
    /\ inflight = NoneInFlight

NextDeserialize == DeserializeCall /\ UNCHANGED <<deactivated, inflight>>

SpecDeserialize == InitDeserialize /\ [][NextDeserialize]_vars

----------------------------------------------------------------------------
(* Deactivate *)

\* the stored promotion of an id
RowOfId(rs, pid) == CHOOSE r \in rs : r.id = pid

ActiveTrue == OnlyActive(<<"t","r","u","e">>)

\* C1: a successful deactivate(id) sets the stored end_date to
\* min(previous end_date, today - 1 day), so the end_date after it is never
\* later than the end_date before it.
C1_DeactivateSetsMin ==
    [][\A pid \in PathIds :
         (Deactivate(pid, "ok") /\ resp'.status = 200) =>
            LET old == RowOfId(rows, pid).end_date
                new == RowOfId(rows', pid).end_date
            IN  /\ new = IF old < today - 1 THEN old ELSE today - 1
                /\ new <= old]_vars

\* C1 witness: the long-running promotion, which ended in the future, has just
\* been deactivated and ends yesterday
C1_Witness ==
    /\ req.op = "deactivate" /\ resp.status = 200
    /\ \E r \in rows : /\ r.id = req.id
                       /\ r.name = <<"a">> /\ r.promotion_type = <<"x">>
                       /\ r.end_date = today - 1

\* C2: once deactivate(id) has succeeded, further deactivate(id) calls with no
\* update in between, on the same or on a later day, leave the stored
\* end_date as the first call left it.
C2_DeactivateIdempotent ==
    \A pid \in PathIds :
        deactivated[pid].n > 0 =>
            \E r \in rows : r.id = pid /\ r.end_date = deactivated[pid].end

\* C2 witness: the long-running promotion has been deactivated again on a day
\* whose yesterday is later than the end date the first deactivation left
C2_Witness ==
    \E pid \in PathIds :
        /\ deactivated[pid].n = 2
        /\ deactivated[pid].last - 1 > deactivated[pid].end
        /\ \E r \in rows : r.id = pid /\ r.start_date = 1
                           /\ r.promotion_type = <<"x">>

\* C3: right after a successful deactivate(id), GET /promotions?active=true
\* does not contain that id.
C3_DeactivatedNotActive ==
    [][\A pid \in PathIds :
         (/\ req.op = "deactivate" /\ req.id = pid /\ resp.status = 200
          /\ List(ActiveTrue))
         => \A b \in resp'.body : b.id # pid]_vars

\* C3 witness: the one-day promotion, active today, has just been deactivated
C3_Witness ==
    /\ req.op = "deactivate" /\ resp.status = 200
    /\ \E r \in rows : /\ r.id = req.id
                       /\ r.start_date = today /\ r.end_date = today - 1
    /\ Cardinality(rows) = 2

\* C4: deactivate changes nothing but end_date: the other fields of that
\* promotion and every other stored promotion are unchanged.
C4_DeactivateTouchesOnlyEndDate ==
    [][\A pid \in PathIds :
         (\E f \in StoreOutcomes : Deactivate(pid, f)) =>
            /\ \A r \in rows : r.id # pid => r \in rows'
            /\ \A q \in rows' : q.id # pid => q \in rows
            /\ \A r \in rows : r.id = pid =>
                 \E q \in rows' : q = [r EXCEPT !.end_date = q.end_date]
            /\ \A q \in rows' : q.id = pid => \E r \in rows : r.id = pid]_vars

\* C4 witness: a deactivation has pulled back the end date of a promotion
\* that starts today, with another promotion stored beside it
C4_Witness ==
    /\ req.op = "deactivate" /\ resp.status = 200
    /\ \E r \in rows : /\ r.id = req.id /\ r.start_date > r.end_date
                       /\ r.promotion_type = <<"y">> /\ r.value = 1
    /\ \E r \in rows : r.id # req.id

----------------------------------------------------------------------------
(* GET /promotions *)

Priority == <<"id", "active", "name", "product_id", "promotion_type">>

\* the query with only its highest-priority present parameter kept
OnlyTop(a) ==
    LET present == {i \in 1..Len(Priority) : a[Priority[i]].present}
    IN  IF present = {} THEN NoArgs
        ELSE LET top == CHOOSE i \in present : \A j \in present : i <= j
             IN  [p \in Params |-> IF p = Priority[top] THEN a[p] ELSE NoArg]

\* the parameter p is present and no parameter of a higher priority is
Deciding(a, p) == a[p].present /\ OnlyTop(a)[p].present

\* C5: the response is decided by the highest-priority parameter present
\* alone (id > active > name > product_id > promotion_type), the other
\* parameters have no effect; with no parameter present every stored
\* promotion is returned.
C5_HighestPriorityPresentDecides ==
    [][List(req'.args) =>
         /\ resp' = ListPromotions(rows, today, OnlyTop(req'.args))
         /\ (\A p \in Params : ~req'.args[p].present) =>
               resp' = Ok(rows)]_vars

\* C6: ?active=<true value> returns exactly the promotions with
\* start_date <= today <= end_date, ?active=<false value> exactly those with
\* start_date > today or end_date < today.
C6_ActiveFilterExact ==
    [][(List(req'.args) /\ ~req'.args.id.present) =>
         /\ req'.args.active \in {Arg(t) : t \in ActiveTrueTexts} =>
              /\ resp'.status = 200
              /\ resp'.body =
                   {Serialize(r) : r \in
                      {x \in rows : x.start_date <= today
                                    /\ today <= x.end_date}}
         /\ req'.args.active \in {Arg(t) : t \in ActiveFalseTexts} =>
              /\ resp'.status = 200
              /\ resp'.body =
                   {Serialize(r) : r \in
                      {x \in rows : x.start_date > today
                                    \/ x.end_date < today}}]_vars

\* C6 witness: ?active= YES  has returned the promotion that starts today and
\* left out a stored promotion
C6_Witness ==
    /\ req.op = "list" /\ req.args.active = Arg(<<" ","Y","E","S"," ">>)
    /\ ~req.args.id.present
    /\ resp.status = 200
    /\ \E b \in resp.body : b.start_date = IsoFormat(today)
    /\ today = MaxToday
    /\ Cardinality(resp.body) < Cardinality(rows)

C8_BlankTypeGivesEmptyList ==
    [][(List(req'.args) /\ Deciding(req'.args, "promotion_type")
          /\ req'.args.promotion_type.s \in {<<>>, <<" ">>})
         => resp'.status = 200 /\ resp'.body = {}]_vars

\* C9: a non-integer id or product_id filter yields 200 with an empty list;
\* an integer id filter yields a list of zero or one element.
C9_NonIntegerIdGivesEmptyList ==
    [][List(req'.args) =>
         /\ (\/ Deciding(req'.args, "id")
                  /\ req'.args.id.s \in {<<>>, <<"x">>}
             \/ Deciding(req'.args, "product_id")
                  /\ req'.args.product_id.s \in {<<>>, <<"x">>})
            => resp'.status = 200 /\ resp'.body = {}
         /\ (Deciding(req'.args, "id") /\ req'.args.id.s = <<"1">>)
            => resp'.status = 200 /\ Cardinality(resp'.body) <= 1]_vars

----------------------------------------------------------------------------
(* deserialize *)

Required == {"name", "promotion_type", "value", "product_id",
             "start_date", "end_date"}

\* C10: for an object that lacks a required key, deserialize fails with the
\* "missing field" validation error, naming a key that is missing.
C10_MissingKeyReportedAsMissing ==
    (/\ req.op = "deserialize" /\ resp # NoResponse
     /\ req.data.kind = "dict"
     /\ \E k \in Required : req.data.m[k] = JAbsent)
    => /\ resp.err = "missing"
       /\ resp.field \in Required
       /\ req.data.m[resp.field] = JAbsent

\* the integer fields of an object that carry a value that is no JSON integer
IllTypedInts(m) ==
    {k \in {"value", "product_id"} : m[k].t \notin {"absent", "int"}}

\* C11: for an object in which value or product_id is present but is no
\* integer (a numeric string, a float, a boolean, null), deserialize fails
\* with the "wrong type" validation error naming such a field; it never
\* returns a Promotion. Stated for the objects that carry all six required
\* keys, so that no missing key is reported in its place.
C11_NonIntegerRejected ==
    (/\ req.op = "deserialize" /\ resp # NoResponse
     /\ req.data.kind = "dict"
     /\ \A k \in Required : req.data.m[k] # JAbsent
     /\ IllTypedInts(req.data.m) # {})
    => /\ resp.err = "type"
       /\ resp.field \in IllTypedInts(req.data.m)

\* the date fields of an object that carry a value that is no ISO date
BadDates(m) ==
    {k \in {"start_date", "end_date"} :
        m[k] # JAbsent
        /\ ~(m[k].t = "str" /\ \E d \in 1..31 : m[k].s = IsoFormat(d))}

----------------------------------------------------------------------------
(* Errors of the requests *)

\* the bodies of Spec that are no JSON object
NonObjects == {p[1] : p \in {q \in Posts \cup Puts : q[1].kind # "dict"}}

\* C13: a request body that is no object (a string, a number, a list, null)
\* is rejected as a validation error: POST /promotions and PUT /promotions/<id>
\* on a stored id answer 400, never 500, and store nothing.
C13_NonObjectBodyIs400 ==
    [][\A d \in NonObjects :
         /\ Create(d, TRUE, "ok") => resp'.status = 400 /\ rows' = rows
         /\ \A pid \in PathIds :
              (Update(pid, d, TRUE, "ok") /\ FindById(rows, pid) # {})
              => resp'.status = 400 /\ rows' = rows]_vars

\* the day an ISO text names
DayNamed(text) == CHOOSE d \in 1..31 : IsoFormat(d) = text

\* an object with the six required fields correctly typed
CorrectlyTyped(m) ==
    /\ m.name.t = "str" /\ m.promotion_type.t = "str"
    /\ m.value.t = "int" /\ m.product_id.t = "int"
    /\ \A k \in {"start_date", "end_date"} :
          m[k].t = "str" /\ \E d \in 1..31 : IsoFormat(d) = m[k].s

\* C14: round trip: for an object P with the six required fields correctly
\* typed, deserialize(P) succeeds and serialize(deserialize(P)) has the name,
\* promotion_type, value and product_id of P and its two dates as ISO text.
C14_RoundTrip ==
    (/\ req.op = "deserialize" /\ resp # NoResponse
     /\ req.data.kind = "dict" /\ CorrectlyTyped(req.data.m))
    => /\ resp.err = "none"
       /\ \E b \in resp.body :
            /\ resp.body = {b}
            /\ b.name = req.data.m.name
            /\ b.promotion_type = req.data.m.promotion_type
            /\ b.value = req.data.m.value
            /\ b.product_id = req.data.m.product_id
            /\ b.start_date = JStr(IsoFormat(DayNamed(req.data.m.start_date.s)))
            /\ b.end_date = JStr(IsoFormat(DayNamed(req.data.m.end_date.s)))

\* C14 witness: an object with a padded name, a negative value and dates of
\* one and of two digits has been deserialized and serialized again
C14_Witness ==
    /\ req.op = "deserialize" /\ resp.err = "none"
    /\ req.data.m.name = JStr(<<" ","A"," ">>)
    /\ req.data.m.value = JInt(0 - 1)
    /\ \E b \in resp.body : /\ b.start_date = JStr(<<"1","0">>)
                            /\ b.end_date = JStr(<<"0","2">>)

\* C15: a POST or PUT request answered with 400 or 415 leaves the stored
\* promotions as they were, also when the fields before the offending one
\* were valid.
C15_RejectedRequestStoresNothing ==
    [][((\/ \E p \in Posts, f \in StoreOutcomes : Create(p[1], p[2], f)
         \/ \E pid \in PathIds, p \in Puts, f \in StoreOutcomes :
               Update(pid, p[1], p[2], f))
        /\ resp'.status \in {400, 415})
       => rows' = rows]_vars

\* C15 witness: a PUT whose body has a new name and type and no value has
\* been answered 400 for the value, and the stored promotion keeps its name
C15_Witness ==
    /\ req.op = "update" /\ resp.status = 400
    /\ resp.err = "type" /\ resp.field = "value"
    /\ \E r \in rows : r.id = req.id /\ r.name = <<"b">>

\* the errors of a request that validation refuses
ValidationErrors ==
    {"missing", "type", "date", "malformed", "id_mismatch", "id_required"}

C18_UnknownIdIs404 ==
    [][\A pid \in PathIds :
         (/\ FindById(rows, pid) = {}
          /\ \/ Get(pid)
             \/ \E p \in Puts, f \in StoreOutcomes : Update(pid, p[1], TRUE, f)
             \/ \E f \in StoreOutcomes : Deactivate(pid, f))
         => resp'.status = 404 /\ rows' = rows]_vars

\* C18 witness: a PUT on an id that is not stored, beside a promotion that is,
\* has been answered 404
C18_Witness ==
    /\ req.op = "update" /\ resp.status = 404
    /\ rows # {} /\ \A r \in rows : r.id # req.id

----------------------------------------------------------------------------
(* Delete *)

\* C19: DELETE /promotions/<id> for an id that is not stored answers 404 and
\* changes nothing; only a DELETE of a stored id answers 204.
C19_DeleteUnknownIs404 ==
    [][\A pid \in PathIds, f \in StoreOutcomes :
         Delete(pid, f) =>
            /\ FindById(rows, pid) = {} => resp'.status = 404 /\ rows' = rows
            /\ resp'.status = 204 =>
                  /\ FindById(rows, pid) # {}
                  /\ rows' = rows \ FindById(rows, pid)]_vars

\* C19 witness: a DELETE of an id that was never handed out, beside a stored
\* promotion, has been answered 404
C19_Witness ==
    /\ req.op = "delete" /\ resp.status = 404
    /\ req.id >= nextId /\ rows # {}

\* C20, as claimed: DELETE /promotions/<id> answers 204 also when no promotion
\* of that id is stored.
C20_DeleteMissingIs204 ==
    [][\A pid \in PathIds :
         (Delete(pid, "ok") /\ FindById(rows, pid) = {})
         => resp'.status = 204]_vars

\* C20, amended: DELETE is not idempotent in its response: a DELETE of an id
\* that was stored and has been deleted answers 404, not the 204 of the first
\* DELETE, and changes nothing. (Under SpecHistory every key handed out was
\* stored, so such an id is one below nextId that is stored no more.)
C20_RepeatedDeleteIs404 ==
    [][\A pid \in PathIds :
         (/\ pid < nextId /\ FindById(rows, pid) = {}
          /\ Delete(pid, "ok"))
         => resp'.status = 404 /\ rows' = rows]_vars

\* C20 witness: a DELETE of an id that was stored and deleted has been
\* answered 404
C20_Witness ==
    /\ req.op = "delete" /\ resp.status = 404
    /\ req.id < nextId

----------------------------------------------------------------------------
(* Identity *)

\* C21: once the promotion of an id has been deleted, find(id) and
\* GET /promotions/<id> find nothing in every later state: the id is not
\* given to another record.
C21_DeletedIdStaysAbsent ==
    \A pid \in PathIds :
        deactivated[pid].gone =>
            /\ Find(rows, Decimal(pid)) = {}
            /\ GetPromotions(rows, pid) = NotFound

\* C21 witness: a promotion has been deleted and another has been created
\* after it, under a later key
C21_Witness ==
    \E pid \in PathIds :
        /\ deactivated[pid].gone
        /\ \E r \in rows : r.id > pid
        /\ req.op = "create" /\ resp.status = 201

\* the six fields of the row r are those of the JSON object m
SameFields(r, m) ==
    /\ m.name = JStr(r.name) /\ m.promotion_type = JStr(r.promotion_type)
    /\ m.value = JInt(r.value) /\ m.product_id = JInt(r.product_id)
    /\ m.start_date = JStr(IsoFormat(r.start_date))
    /\ m.end_date = JStr(IsoFormat(r.end_date))

\* C22: after a successful create, find(id) with the id that create assigned
\* returns a record whose six fields are the ones of the request, and the
\* Location of the response names that record.
C22_CreateThenFind ==
    [][\A p \in Posts, f \in StoreOutcomes :
         (Create(p[1], p[2], f) /\ resp'.status = 201) =>
            \E b \in resp'.body :
               /\ resp'.body = {b}
               /\ \E r \in rows' :
                    /\ Find(rows', Decimal(b.id)) = {r}
                    /\ SameFields(r, p[1].m)
                    /\ r \notin rows
                    /\ resp'.loc = r.id
                    /\ GetPromotions(rows', resp'.loc) = Ok({r})]_vars

\* C22 witness: the one-day promotion has been created as the second one
C22_Witness ==
    /\ req.op = "create" /\ resp.status = 201 /\ resp.loc = 2
    /\ \E r \in rows : /\ r.id = 2 /\ r.name = <<"a">>
                       /\ r.value = 1 /\ r.product_id = 2
    /\ Cardinality(rows) = 2

\* C23: a create whose body carries the id of a stored promotion is rejected
\* and the stored promotions stay unchanged; the id of a created record is
\* chosen by the server.
C23_CreateWithStoredIdRejected ==
    [][\A p \in Posts, f \in StoreOutcomes :
         (/\ p[1].kind = "dict" /\ p[1].m.id.t = "int"
          /\ FindById(rows, p[1].m.id.n) # {}
          /\ Create(p[1], p[2], f))
         => /\ resp'.status \in {400, 409}
            /\ rows' = rows]_vars

\* the ids of the stored promotions
Ids(rs) == {r.id : r \in rs}

\* C24: no two stored promotions have the same id, and the id of a stored
\* promotion never changes: an update or a deactivation leaves the ids of
\* the table as they are, and an update whose body carries another id is
\* refused and alters nothing.
C24_IdsUniqueAndImmutable ==
    [][/\ \A r1 \in rows', r2 \in rows' : r1.id = r2.id => r1 = r2
       /\ \A pid \in PathIds, f \in StoreOutcomes :
            ((\E p \in Puts : Update(pid, p[1], p[2], f)) \/ Deactivate(pid, f))
            => /\ Ids(rows') = Ids(rows)
               /\ \A r \in rows : r.id # pid => r \in rows'
       /\ \A pid \in PathIds, p \in Puts, f \in StoreOutcomes :
            (/\ Update(pid, p[1], p[2], f)
             /\ p[2] /\ FindById(rows, pid) # {}
             /\ p[1].kind = "dict" /\ p[1].m.id.t = "int"
             /\ p[1].m.id.n # pid)
            => resp'.status = 400 /\ rows' = rows]_vars

\* C24 witness: a PUT whose body carries another id has been refused, with two
\* promotions stored
C24_Witness ==
    /\ req.op = "update" /\ resp.status = 400 /\ resp.err = "id_mismatch"
    /\ Cardinality(rows) = 2 /\ Ids(rows) = {1, 2}

----------------------------------------------------------------------------
(* Update *)

\* C25: PUT /promotions/<id> on a stored id with a valid body is a full
\* replace: afterwards the six stored fields of the id are those of the body,
\* the id is the path id, every other stored promotion is unchanged, and the
\* response is 200 with the new record.
C25_UpdateIsFullReplace ==
    [][\A pid \in PathIds, d \in ValidBodies :
         (Update(pid, d, TRUE, "ok") /\ FindById(rows, pid) # {}) =>
            \E r \in rows' :
               /\ r.id = pid /\ SameFields(r, d.m)
               /\ rows' = (rows \ FindById(rows, pid)) \cup {r}
               /\ resp'.status = 200
               /\ resp'.body = {Serialize(r)}]_vars

\* C25 witness: the promotion of id 1 has been replaced by the ended one,
\* beside the long-running promotion of id 2
C25_Witness ==
    /\ req.op = "update" /\ req.id = 1 /\ resp.status = 200
    /\ \E r \in rows : r.id = 1 /\ r.name = <<"b">> /\ r.value = 2
    /\ \E r \in rows : r.id = 2 /\ r.name = <<"a">> /\ r.value = 1

\* C26: the update operation of the model fails with a validation error, and
\* writes nothing, when the id of the promotion is empty or missing and also
\* when no promotion of that id is stored.
C26_ModelUpdateNeedsStoredId ==
    [][\A o \in UpdateObjects :
         (/\ UpdateCall(o, "ok")
          /\ \/ o.id.t = "null"
             \/ FindById(rows, o.id.n) = {})
         => resp'.err \in ValidationErrors /\ rows' = rows]_vars

----------------------------------------------------------------------------
(* The stored promotions *)

\* C27: every stored promotion satisfies the data model: the six fields are
\* set, name and promotion_type are strings that are not empty, value and
\* product_id are integers, start_date and end_date are dates.
C27_StoredSatisfyDataModel ==
    \A r \in rows :
        /\ Len(r.name) > 0 /\ Len(r.promotion_type) > 0
        /\ r.value \in Int /\ r.product_id \in Int
        /\ r.start_date \in Int /\ r.end_date \in Int

----------------------------------------------------------------------------
(* Requests at the same time *)

\* the row a request q (an update with its body, or a deactivate) makes of
\* the row r when it runs alone
Alone(q, r) ==
    IF q.op = "update"
    THEN RowOf(Deserialize(Loaded(r), q.data).obj, r.id)
    ELSE [r EXCEPT !.end_date = IF r.end_date < today - 1
                                 THEN r.end_date ELSE today - 1]

BothAnswered200 ==
    \A w \in Workers : inflight.t[w].pc = "done" /\ inflight.t[w].status = 200

\* C28: when two requests that change the same id (an update and a
\* deactivate, or two of either) were handled at the same time and both were
\* answered 200, the stored row is the one that running the two requests one
\* after the other, in one of the two orders, makes of the row that was
\* stored before them; and when a deactivate committed after the other
\* request, the stored end_date is not later than the day before today.
C28_ConcurrentIsSerial ==
    BothAnswered200 =>
        LET q1 == inflight.t[1]
            q2 == inflight.t[2]
            r  == RowOfId(rows, q1.id)
        IN  /\ r \in {Alone(q2, Alone(q1, inflight.base)),
                      Alone(q1, Alone(q2, inflight.base))}
            /\ \A w \in Workers :
                 (inflight.t[w].op = "deactivate" /\ inflight.t[w].order = 2)
                 => r.end_date <= today - 1

----------------------------------------------------------------------------
(* Active and inactive *)

\* C29: on every table and every day, the responses to
\* GET /promotions?active=<true> and GET /promotions?active=<false> are 200,
\* have no promotion in common, and together hold exactly the promotions of
\* the response to GET /promotions without a filter; a promotion whose
\* end_date is earlier than its start_date is in exactly one of them.
C29_ActivePartition ==
    \A a \in ActiveTrueTexts, b \in ActiveFalseTexts :
        LET active   == ListPromotions(rows, today, OnlyActive(a))
            inactive == ListPromotions(rows, today, OnlyActive(b))
            all      == ListPromotions(rows, today, NoArgs)
        IN  /\ active.status = 200 /\ inactive.status = 200
            /\ all.status = 200
            /\ active.body \cap inactive.body = {}
            /\ active.body \cup inactive.body = all.body
            /\ all.body = {Serialize(r) : r \in rows}

\* an active=false list has been answered with a promotion whose end_date is
\* earlier than its start_date, while another promotion is active
C29_Witness ==
    /\ req.op = "list" /\ req.args \in {OnlyActive(b) : b \in ActiveFalseTexts}
    /\ resp.status = 200
    /\ \E r \in rows : r.end_date < r.start_date /\ Serialize(r) \in resp.body
    /\ ListPromotions(rows, today, ActiveTrue).body # {}

----------------------------------------------------------------------------
(* Retrieval by the stored values *)

\* C30: every stored promotion r is in the response to
\* GET /promotions?name=<r.name> and in the response to
\* GET /promotions?promotion_type=<r.promotion_type>, also when the stored
\* value is empty or begins or ends with white space.
C30_RetrievableByOwnValues ==
    \A r \in rows :
        /\ Serialize(r) \in
             ListPromotions(rows, today,
                            [NoArgs EXCEPT !.name = Arg(r.name)]).body
        /\ Serialize(r) \in
             ListPromotions(rows, today,
                            [NoArgs EXCEPT !.promotion_type =
                                               Arg(r.promotion_type)]).body

====
